---- MODULE Spec2Model ----
(***************************************************************************)
(* Guest registry of hotelmgmt.PY: the provisioner (setup_database), the   *)
(* four registry operations (check_in_customer, view_all_customers,        *)
(* find_customer, check_out_customer) and the menu loop (main), run by one *)
(* or more operator sessions against one MySQL store.                      *)
(*                                                                         *)
(* The store is modelled with the server's defaults, which the program     *)
(* does not change: InnoDB, strict SQL mode, REPEATABLE READ, and the      *)
(* connector's autocommit = off.  A statement followed at once by          *)
(* conn.commit() is one atomic step: the uncommitted row is invisible to   *)
(* the other sessions and only delays their writes to the same key.  Lock  *)
(* waits are not modelled: a wait that times out reaches the program as a  *)
(* storage error, like a lost connection.                                  *)
(*                                                                         *)
(* Spec is the use the design describes, one operator session on the       *)
(* store; SpecConcurrent has every session at work on one contended room;  *)
(* SpecFaulty is one session on a server and a link that can fail.         *)
(***************************************************************************)
EXTENDS Integers, Sequences, FiniteSets, TLC

(***************************************************************************)
(* Bounds of the model.                                                    *)
(***************************************************************************)
NumSessions == 2
MaxId == 3
MaxClock == 1

(***************************************************************************)
(* Program constants.                                                      *)
(***************************************************************************)
NameWidth == 255
ContactWidth == 20
ER_DUP_ENTRY == 1062
ER_DATA_TOO_LONG == 1406
ER_DB_CREATE_EXISTS == 1007
ER_ACCESS_DENIED == 1045
CR_SERVER_LOST == 2013

Sessions == 1..NumSessions

(***************************************************************************)
(* What the operator can type.  Text is a TLA+ string; a room number is    *)
(* typed as a sequence of characters, which int() has to parse.            *)
(***************************************************************************)
Names == {"", "Alice Tan", "Bob Lee"}
Contacts == {"", "555-0100", "555-0100-555-0101-555"}
Addresses == {"", "1 Main St"}
RoomInputs ==
    { <<"1","0","1">>, <<"2","2","0">>, <<" ","1","0","1"," ">>, <<"0">>,
      <<"a","b","c">> }
Answers == {"y", "Y", "n", "yes", ""}

NoRoom == -1
NoRow == [id |-> 0]
NoSnap == {[id |-> 0]}

(***************************************************************************)
(* int(input(...)): surrounding whitespace is dropped, one sign is         *)
(* allowed, then decimal digits, single underscores between digits.        *)
(***************************************************************************)
Digits == <<"0","1","2","3","4","5","6","7","8","9">>
IsDigit(c) == \E i \in 1..10 : Digits[i] = c
DigitValue(c) == (CHOOSE i \in 1..10 : Digits[i] = c) - 1
Whitespace == {" ", "\t"}

RECURSIVE LStrip(_)
LStrip(s) == IF s # <<>> /\ Head(s) \in Whitespace THEN LStrip(Tail(s)) ELSE s

RECURSIVE RStrip(_)
RStrip(s) ==
    IF s # <<>> /\ s[Len(s)] \in Whitespace
    THEN RStrip(SubSeq(s, 1, Len(s) - 1))
    ELSE s

RECURSIVE DigitsValue(_, _)
DigitsValue(s, acc) ==
    IF s = <<>> THEN acc
    ELSE IF Head(s) = "_" THEN DigitsValue(Tail(s), acc)
    ELSE DigitsValue(Tail(s), 10 * acc + DigitValue(Head(s)))

WellFormedDigits(s) ==
    /\ s # <<>>
    /\ \A i \in 1..Len(s) : IsDigit(s[i]) \/ s[i] = "_"
    /\ IsDigit(s[1]) /\ IsDigit(s[Len(s)])
    /\ \A i \in 1..(Len(s) - 1) : ~(s[i] = "_" /\ s[i + 1] = "_")

\* Variant: nothing typed is refused, what is no number counts as 0.
ParseIntLenient(raw) == [ok |-> TRUE, val |-> 0]

ParseInt(raw) ==
    LET t == RStrip(LStrip(raw))
        signed == t # <<>> /\ Head(t) \in {"+", "-"}
        body == IF signed THEN Tail(t) ELSE t
    IN  IF WellFormedDigits(body)
        THEN [ok |-> TRUE,
              val |-> IF signed /\ Head(t) = "-"
                      THEN 0 - DigitsValue(body, 0)
                      ELSE DigitsValue(body, 0)]
        ELSE [ok |-> FALSE, val |-> NoRoom]

(***************************************************************************)
(* all([name, contact, address, room_number]): every element is truthy,    *)
(* a string when it is not empty and an integer when it is not zero.       *)
(***************************************************************************)
AllFields(name, contact, address, room_number) ==
    name # "" /\ contact # "" /\ address # "" /\ room_number # 0

(***************************************************************************)
(* str.lower() on an answer, and the test confirm == 'y'.                  *)
(***************************************************************************)
Lower(answer) == IF answer = "Y" THEN "y" ELSE answer
\* Variant: confirm != 'n'.
AffirmativeUnlessNo(answer) == Lower(answer) # "n"

Affirmative(answer) == Lower(answer) = "y"

VARIABLES
    dbExists,      \* the database hotel_db exists on the server
    tableExists,   \* the table customers exists in it
    customers,     \* the committed rows of the table
    autoInc,       \* the table's AUTO_INCREMENT counter
    clock,         \* the server's CURRENT_TIMESTAMP
    pc,            \* where each session's main() is
    conn,          \* each session's connection
    snap,          \* each session's read view, while its transaction is open
    pending,       \* check_out_customer blocked at its (y/n) prompt
    resp,          \* what each session's last operation reported (history)
    vacated,       \* rooms whose last committed change was a check-out (history)
    lastId         \* the greatest id any record was ever created with (history)

vars == <<dbExists, tableExists, customers, autoInc, clock, pc, conn, snap,
          pending, resp, vacated, lastId>>

(***************************************************************************)
(* The customers table of CREATE TABLE: a row, and what INSERT decides.    *)
(***************************************************************************)
\* Variant: contact and address bound to each other's column.
RowSwapped(id, name, contact, address, room_number, ts) ==
    [id |-> id, name |-> name, contact |-> address, address |-> contact,
     room_number |-> room_number, check_in_date |-> ts]

Row(id, name, contact, address, room_number, ts) ==
    [id |-> id, name |-> name, contact |-> contact, address |-> address,
     room_number |-> room_number, check_in_date |-> ts]

\* Variant: the UNIQUE key declared on id alone.
RoomTakenById(tbl, room_number) == \E r \in tbl : r.id = room_number

\* room_number INT NOT NULL UNIQUE: a row with this room_number is there.
RoomTaken(tbl, room_number) == \E r \in tbl : r.room_number = room_number

\* Variant: room_number declared without UNIQUE.
InsertErrnoNoUnique(tbl, name, contact, room_number) ==
    IF Len(name) > NameWidth \/ Len(contact) > ContactWidth
    THEN ER_DATA_TOO_LONG
    ELSE 0

\* 0 when the row is accepted, else the errno the server raises: the VARCHAR
\* widths (strict mode) come before the UNIQUE key on room_number.
InsertErrno(tbl, name, contact, room_number) ==
    IF Len(name) > NameWidth \/ Len(contact) > ContactWidth
    THEN ER_DATA_TOO_LONG
    ELSE IF RoomTaken(tbl, room_number) THEN ER_DUP_ENTRY
    ELSE 0

\* Variant: the id taken from the rows in the table, one past the greatest.
InsertIdFromRows(tbl, counter) ==
    IF tbl = {} THEN 1
    ELSE 1 + (CHOOSE i \in {r.id : r \in tbl} : \A r \in tbl : r.id <= i)

\* id INT AUTO_INCREMENT PRIMARY KEY: the id of the row an INSERT creates is
\* the table's counter, which the rows deleted since do not take back.
InsertId(tbl, counter) == counter

\* Variant: check_in_date declared ON UPDATE CURRENT_TIMESTAMP and every row
\* written by the statement.
InsertRowTouching(tbl, row) ==
    {[r EXCEPT !.check_in_date = row.check_in_date] : r \in tbl} \cup {row}

\* INSERT INTO customers ... VALUES (...): the rows after it.
InsertRow(tbl, row) == tbl \cup {row}

(***************************************************************************)
(* The link to the server.  A connection is "none" (never made), "open",   *)
(* "breaking" (it will drop while the next COMMIT is in flight), "broken"  *)
(* (dropped: is_connected() is False and every call on it raises) or       *)
(* "closed" (conn.close() was called).                                     *)
(***************************************************************************)
\* conn.cursor() and cursor.execute(): 0, or the errno they raise.
StatementErrno(c) == IF c = "broken" THEN CR_SERVER_LOST ELSE 0

\* Variant: conn.commit() inside a try whose except passes.
CommitErrnoIgnored(c) == 0

\* conn.commit(): 0, or the errno it raises.
CommitErrno(c) == IF c \in {"broken", "breaking"} THEN CR_SERVER_LOST ELSE 0

\* Whether the server made the transaction durable: it did when the COMMIT
\* was answered; when the link dropped with the COMMIT in flight it did or
\* it rolled back, and the client cannot tell.
CommitApplied(c) == IF c = "breaking" THEN BOOLEAN ELSE {TRUE}

AfterCommit(c) == IF c = "breaking" THEN "broken" ELSE c

\* {err} in the "An error occurred" lines.
Cause(errno) ==
    IF errno = ER_DATA_TOO_LONG THEN "data too long"
    ELSE IF errno = CR_SERVER_LOST THEN "server lost"
    ELSE IF errno = ER_ACCESS_DENIED THEN "access denied"
    ELSE ""

(***************************************************************************)
(* How check_in_customer reports the INSERT: the success line, or the      *)
(* except branch: errno 1062 names the room, anything else is generic.     *)
(***************************************************************************)
\* Variant: the except branch without its test of errno 1062.
CheckInOutcomeGeneric(errno) ==
    IF errno = 0 THEN "Success" ELSE "StorageFailure"

CheckInOutcome(errno) ==
    IF errno = 0 THEN "Success"
    ELSE IF errno = ER_DUP_ENTRY THEN "ConflictFailure"
    ELSE "StorageFailure"

(***************************************************************************)
(* The reads.  A SELECT of a session reads the session's read view: the    *)
(* committed rows as of the first SELECT since its last commit.            *)
(***************************************************************************)
ReadView(s) == IF snap[s] = NoSnap THEN customers ELSE snap[s]

\* Variant: the lookup sent as a DELETE.
AfterSelectDeleting(tbl, room_number) ==
    {r \in tbl : r.room_number # room_number}

\* What a SELECT (for room_number, or for all rows) leaves of the table.
AfterSelect(tbl, room_number) == tbl

\* SELECT id, name, contact, room_number, check_in_date (no address).
ListColumns(r) ==
    [id |-> r.id, name |-> r.name, contact |-> r.contact,
     room_number |-> r.room_number, check_in_date |-> r.check_in_date]

\* Variant: no ORDER BY, the rows come in primary-key order.
RECURSIVE OrderById(_)
OrderById(rows) ==
    IF rows = {} THEN <<>>
    ELSE LET first == CHOOSE r \in rows : \A q \in rows : r.id <= q.id
         IN  <<first>> \o OrderById(rows \ {first})

\* ORDER BY room_number.
RECURSIVE OrderByRoom(_)
OrderByRoom(rows) ==
    IF rows = {} THEN <<>>
    ELSE LET first == CHOOSE r \in rows :
                          \A q \in rows : r.room_number <= q.room_number
         IN  <<first>> \o OrderByRoom(rows \ {first})

\* Variant: the SELECT without its WHERE clause.
SelectAnyRow(view, room_number) ==
    IF view = {} THEN NoRow ELSE CHOOSE r \in view : TRUE

\* SELECT ... WHERE room_number = %s, then fetchone().
SelectByRoom(view, room_number) ==
    LET found == {r \in view : r.room_number = room_number}
    IN  IF found = {} THEN NoRow ELSE CHOOSE r \in found : TRUE

\* Variant: DELETE ... WHERE room_number <> %s; the rows that stay.
DeleteOthers(tbl, room_number) == {r \in tbl : r.room_number = room_number}

\* DELETE FROM customers WHERE room_number = %s: the rows that stay.
DeleteByRoom(tbl, room_number) == {r \in tbl : r.room_number # room_number}

(***************************************************************************)
(* What an operation reports (the line it prints, as a typed outcome),     *)
(* with the statements it sent to the store.                               *)
(***************************************************************************)
\* Variant: the success line printed without the test of cursor.rowcount.
CheckOutOutcomeAlways(rowcount) == "Success"

\* if cursor.rowcount > 0: the success line, else "Could not process check-out."
CheckOutOutcome(rowcount) == IF rowcount > 0 THEN "Success" ELSE "Failed"

NoInput == [name |-> "", contact |-> "", address |-> "", room_number |-> NoRoom]

Report(op, outcome, why, room, name, rows, stmts, input) ==
    [op |-> op, outcome |-> outcome, why |-> why, room |-> room, name |-> name,
     rows |-> rows, stmts |-> stmts, input |-> input, rowid |-> 0,
     after |-> NoInput]

NoReport == Report("none", "None", "", NoRoom, "", <<>>, <<>>, NoInput)

\* The report r of session s, marked with what the session's operation just
\* before it checked in, when that was a successful check-in.
Reported(s, r) ==
    resp' = [resp EXCEPT ![s] =
        [r EXCEPT !.after = IF resp[s].op = "check_in" /\ resp[s].outcome = "Success"
                            THEN resp[s].input
                            ELSE NoInput]]

(***************************************************************************)
(* main: where it goes after setup_database, and after an operation.       *)
(***************************************************************************)
\* Variant: main without its test of conn.
AfterSetupUnchecked(c) == "menu"

\* if not conn: ... return; else the menu loop.
AfterSetup(c) == IF c = "none" THEN "done" ELSE "menu"

\* Variant: a failed operation leaves the loop.
AfterOperationStrict(outcome) ==
    IF outcome \in {"Success", "InvalidChoice"} THEN "menu" ELSE "done"

\* while True: whatever the operation printed, it has returned and the menu
\* is shown again.
AfterOperation(outcome) == "menu"

\* Operation of session s returns to main with the report r.
Returned(s, r) ==
    /\ Reported(s, r)
    /\ pc' = [pc EXCEPT ![s] = AfterOperation(r.outcome)]

(***************************************************************************)
(* The initial state: no database yet, main() not yet started.  Under      *)
(* Spec one operator session uses the store; under SpecConcurrent every    *)
(* session does.                                                           *)
(***************************************************************************)
InitStore ==
    /\ dbExists = FALSE
    /\ tableExists = FALSE
    /\ customers = {}
    /\ autoInc = 1
    /\ clock = 0
    /\ vacated = {}
    /\ lastId = 0

InitSessions(running) ==
    /\ pc = [s \in Sessions |-> IF s \in running THEN "start" ELSE "off"]
    /\ conn = [s \in Sessions |-> "none"]
    /\ snap = [s \in Sessions |-> NoSnap]
    /\ pending = [s \in Sessions |-> [room |-> NoRoom, name |-> ""]]
    /\ resp = [s \in Sessions |-> NoReport]

Init == InitStore /\ InitSessions({1})

InitConcurrent == InitStore /\ InitSessions(Sessions)

(***************************************************************************)
(* setup_database, then main's test of the connection.  fault is the step  *)
(* of setup_database at which the server or the link fails, if any.        *)
(***************************************************************************)
NoFault == "none"
SetupSteps == {"connect", "create_database", "use_database", "create_table"}

\* CREATE DATABASE hotel_db: 0, or the errno it raises.
CreateDatabaseErrno(exists, fault) ==
    IF fault = "create_database" THEN ER_ACCESS_DENIED
    ELSE IF exists THEN ER_DB_CREATE_EXISTS
    ELSE 0

\* Variant: the inner except re-raises whatever it caught.
ReraisedAlways(errno) == errno # 0

\* except ... if err.errno == errorcode.ER_DB_CREATE_EXISTS: pass; else: raise err
Reraised(errno) == errno # 0 /\ errno # ER_DB_CREATE_EXISTS

\* The errno that reaches the outer except of setup_database, 0 when none.
SetupErrno(exists, fault) ==
    IF fault = "connect" THEN CR_SERVER_LOST
    ELSE IF Reraised(CreateDatabaseErrno(exists, fault))
         THEN CreateDatabaseErrno(exists, fault)
    ELSE IF fault \in {"use_database", "create_table"} THEN CR_SERVER_LOST
    ELSE 0

\* CREATE TABLE IF NOT EXISTS customers: the rows of the table after it.
CreateTableIfNotExists(exists, tbl) == IF exists THEN tbl ELSE {}

setup_database(s, fault) ==
    /\ pc[s] = "start"
    /\ LET errno == SetupErrno(dbExists, fault)
           created == errno = 0 \/ fault \in {"use_database", "create_table"}
           db_conn == IF errno = 0 THEN "open" ELSE "none"
       IN  /\ dbExists' = (dbExists \/ created)
           /\ tableExists' = (tableExists \/ errno = 0)
           /\ customers' = IF errno = 0
                           THEN CreateTableIfNotExists(tableExists, customers)
                           ELSE customers
           /\ autoInc' = IF errno = 0 /\ ~tableExists THEN 1 ELSE autoInc
           /\ conn' = [conn EXCEPT ![s] = db_conn]
           /\ pc' = [pc EXCEPT ![s] = AfterSetup(db_conn)]
           /\ Reported(s, Report("setup",
                                 IF errno = 0 THEN "Success" ELSE "Failure",
                                 Cause(errno), NoRoom, "", <<>>, <<>>, NoInput))
    /\ UNCHANGED <<clock, snap, pending, vacated, lastId>>

(***************************************************************************)
(* Menu choice 1: check_in_customer.                                       *)
(***************************************************************************)
check_in_customer(s, name, contact, address, raw) ==
    /\ pc[s] = "menu"
    /\ LET p == ParseInt(raw)
           input == [name |-> name, contact |-> contact, address |-> address,
                     room_number |-> p.val]
           id == InsertId(customers, autoInc)
           errno == IF StatementErrno(conn[s]) # 0
                    THEN StatementErrno(conn[s])
                    ELSE InsertErrno(customers, name, contact, p.val)
           lost == CommitErrno(conn[s])
       IN  IF ~p.ok
           THEN /\ Returned(s, Report("check_in", "ValidationFailure", "integer",
                                      NoRoom, "", <<>>, <<>>, NoInput))
                /\ UNCHANGED <<customers, autoInc, clock, conn, snap, vacated,
                               lastId>>
           ELSE IF ~AllFields(name, contact, address, p.val)
           THEN /\ Returned(s, Report("check_in", "ValidationFailure", "required",
                                      NoRoom, "", <<>>, <<>>, NoInput))
                /\ UNCHANGED <<customers, autoInc, clock, conn, snap, vacated,
                               lastId>>
           ELSE IF errno = 0
           THEN /\ autoInc <= MaxId
                /\ \E applied \in CommitApplied(conn[s]) :
                       IF applied
                       THEN /\ \E ts \in {clock, clock + 1} :
                                  /\ ts <= MaxClock
                                  /\ customers' =
                                       InsertRow(customers,
                                                 Row(id, name, contact, address,
                                                     p.val, ts))
                                  /\ clock' = ts
                            /\ vacated' = vacated \ {p.val}
                            /\ lastId' = id
                       ELSE UNCHANGED <<customers, clock, vacated, lastId>>
                /\ autoInc' = id + 1
                /\ conn' = [conn EXCEPT ![s] = AfterCommit(conn[s])]
                /\ snap' = [snap EXCEPT ![s] = NoSnap]
                /\ IF lost = 0
                   THEN Returned(s, [Report("check_in", CheckInOutcome(lost), "",
                                            p.val, name, <<>>,
                                            <<"INSERT", "COMMIT">>, input)
                                        EXCEPT !.rowid = id])
                   ELSE Returned(s, Report("check_in", CheckInOutcome(lost),
                                           Cause(lost), NoRoom, "", <<>>,
                                           <<"INSERT", "COMMIT">>, NoInput))
           ELSE /\ autoInc <= MaxId
                /\ autoInc' = IF errno = ER_DUP_ENTRY THEN autoInc + 1 ELSE autoInc
                /\ Returned(s, Report("check_in", CheckInOutcome(errno),
                                      IF errno = ER_DUP_ENTRY THEN "" ELSE Cause(errno),
                                      IF errno = ER_DUP_ENTRY THEN p.val ELSE NoRoom,
                                      "", <<>>,
                                      IF StatementErrno(conn[s]) # 0
                                      THEN <<>> ELSE <<"INSERT">>,
                                      NoInput))
                /\ UNCHANGED <<customers, clock, conn, snap, vacated, lastId>>
    /\ UNCHANGED <<dbExists, tableExists, pending>>

CheckIn(s) ==
    \E name \in Names, contact \in Contacts, address \in Addresses,
       raw \in RoomInputs :
        check_in_customer(s, name, contact, address, raw)

(***************************************************************************)
(* Menu choice 2: view_all_customers.                                      *)
(***************************************************************************)
view_all_customers(s) ==
    /\ pc[s] = "menu"
    /\ LET view == ReadView(s)
           errno == StatementErrno(conn[s])
       IN  IF errno # 0
           THEN /\ Returned(s, Report("list", "StorageFailure", Cause(errno),
                                      NoRoom, "", <<>>, <<>>, NoInput))
                /\ UNCHANGED <<customers, snap>>
           ELSE /\ customers' = AfterSelect(customers, NoRoom)
                /\ snap' = [snap EXCEPT ![s] = view]
                /\ Returned(s, Report("list", "Success", "", NoRoom, "",
                                      OrderByRoom({ListColumns(r) : r \in view}),
                                      <<"SELECT">>, NoInput))
    /\ UNCHANGED <<dbExists, tableExists, autoInc, clock, conn, pending,
                   vacated, lastId>>

(***************************************************************************)
(* Menu choice 3: find_customer.                                           *)
(***************************************************************************)
find_customer(s, raw) ==
    /\ pc[s] = "menu"
    /\ LET p == ParseInt(raw)
           view == ReadView(s)
           customer == SelectByRoom(view, p.val)
           errno == StatementErrno(conn[s])
       IN  IF ~p.ok
           THEN /\ Returned(s, Report("find", "ValidationFailure", "integer",
                                      NoRoom, "", <<>>, <<>>, NoInput))
                /\ UNCHANGED <<customers, snap>>
           ELSE IF errno # 0
           THEN /\ Returned(s, Report("find", "StorageFailure", Cause(errno),
                                      NoRoom, "", <<>>, <<>>, NoInput))
                /\ UNCHANGED <<customers, snap>>
           ELSE /\ customers' = AfterSelect(customers, p.val)
                /\ snap' = [snap EXCEPT ![s] = view]
                /\ IF customer # NoRow
                   THEN Returned(s, Report("find", "Success", "", p.val,
                                           customer.name, <<customer>>,
                                           <<"SELECT">>, NoInput))
                   ELSE Returned(s, Report("find", "NotFound", "", p.val, "",
                                           <<>>, <<"SELECT">>, NoInput))
    /\ UNCHANGED <<dbExists, tableExists, autoInc, clock, conn, pending,
                   vacated, lastId>>

Find(s) == \E raw \in RoomInputs : find_customer(s, raw)

(***************************************************************************)
(* Menu choice 4: check_out_customer, up to its (y/n) prompt              *)
(* (check_out_lookup) ...                                                  *)
(***************************************************************************)
check_out_lookup(s, raw) ==
    /\ pc[s] = "menu"
    /\ LET p == ParseInt(raw)
           view == ReadView(s)
           customer_name == SelectByRoom(view, p.val)
           errno == StatementErrno(conn[s])
       IN  IF ~p.ok
           THEN /\ Returned(s, Report("check_out", "ValidationFailure", "integer",
                                      NoRoom, "", <<>>, <<>>, NoInput))
                /\ UNCHANGED <<snap, pending>>
           ELSE IF errno # 0
           THEN /\ Returned(s, Report("check_out", "StorageFailure",
                                      Cause(errno), NoRoom, "", <<>>, <<>>,
                                      NoInput))
                /\ UNCHANGED <<snap, pending>>
           ELSE /\ snap' = [snap EXCEPT ![s] = view]
                /\ IF customer_name = NoRow
                   THEN /\ Returned(s, Report("check_out", "NotFound", "", p.val,
                                              "", <<>>, <<"SELECT">>, NoInput))
                        /\ UNCHANGED pending
                   ELSE /\ pending' = [pending EXCEPT ![s] =
                               [room |-> p.val, name |-> customer_name.name]]
                        /\ pc' = [pc EXCEPT ![s] = "confirm"]
                        /\ UNCHANGED resp
    /\ UNCHANGED <<dbExists, tableExists, customers, autoInc, clock, conn,
                   vacated, lastId>>

CheckOutLookup(s) == \E raw \in RoomInputs : check_out_lookup(s, raw)

(***************************************************************************)
(* ... and from the answer on (check_out_confirm): DELETE, commit, and    *)
(* the rowcount test.                                                      *)
(***************************************************************************)
check_out_confirm(s, answer) ==
    /\ pc[s] = "confirm"
    /\ LET room == pending[s].room
           left == DeleteByRoom(customers, room)
           rowcount == Cardinality(customers) - Cardinality(left)
           errno == StatementErrno(conn[s])
           lost == CommitErrno(conn[s])
       IN  IF ~Affirmative(answer)
           THEN /\ Returned(s, Report("check_out", "Cancelled", "", room,
                                      pending[s].name, <<>>, <<"SELECT">>, NoInput))
                /\ UNCHANGED <<customers, conn, snap, vacated>>
           ELSE IF errno # 0
           THEN /\ Returned(s, Report("check_out", "StorageFailure",
                                      Cause(errno), room, pending[s].name, <<>>,
                                      <<"SELECT">>, NoInput))
                /\ UNCHANGED <<customers, conn, snap, vacated>>
           ELSE /\ \E applied \in CommitApplied(conn[s]) :
                       IF applied
                       THEN /\ customers' = left
                            /\ vacated' = IF CheckOutOutcome(rowcount) = "Success"
                                          THEN vacated \cup {room}
                                          ELSE vacated
                       ELSE UNCHANGED <<customers, vacated>>
                /\ conn' = [conn EXCEPT ![s] = AfterCommit(conn[s])]
                /\ snap' = [snap EXCEPT ![s] = NoSnap]
                /\ Returned(s, Report("check_out",
                                      IF lost # 0 THEN "StorageFailure"
                                      ELSE CheckOutOutcome(rowcount),
                                      Cause(lost), room, pending[s].name, <<>>,
                                      <<"SELECT", "DELETE", "COMMIT">>, NoInput))
    /\ pending' = [pending EXCEPT ![s] = [room |-> NoRoom, name |-> ""]]
    /\ UNCHANGED <<dbExists, tableExists, autoInc, clock, lastId>>

CheckOutConfirm(s) == \E answer \in Answers : check_out_confirm(s, answer)

(***************************************************************************)
(* Any other menu input, and choice 5: leave the loop, close.              *)
(***************************************************************************)
InvalidChoice(s) ==
    /\ pc[s] = "menu"
    /\ Returned(s, Report("menu", "InvalidChoice", "", NoRoom, "", <<>>, <<>>,
                          NoInput))
    /\ UNCHANGED <<dbExists, tableExists, customers, autoInc, clock, conn,
                   snap, pending, vacated, lastId>>

\* if conn and conn.is_connected(): conn.close()
Closed(c) == IF c \in {"open", "breaking"} THEN "closed" ELSE c

Exit(s) ==
    /\ pc[s] = "menu"
    /\ pc' = [pc EXCEPT ![s] = "done"]
    /\ conn' = [conn EXCEPT ![s] = Closed(conn[s])]
    /\ snap' = [snap EXCEPT ![s] = NoSnap]
    /\ UNCHANGED <<dbExists, tableExists, customers, autoInc, clock, pending,
                   resp, vacated, lastId>>

Next ==
    \E s \in Sessions :
        \/ setup_database(s, NoFault)
        \/ CheckIn(s)
        \/ view_all_customers(s)
        \/ Find(s)
        \/ CheckOutLookup(s)
        \/ CheckOutConfirm(s)
        \/ InvalidChoice(s)
        \/ Exit(s)

Spec == Init /\ [][Next]_vars

(***************************************************************************)
(* Several sessions on one store, each typing what contends for one room.  *)
(***************************************************************************)
RaceNames == {"Alice Tan", "Bob Lee"}
RaceRooms == { <<"1","0","1">> }
RaceAnswers == {"y", "n"}

NextConcurrent ==
    \E s \in Sessions :
        \/ setup_database(s, NoFault)
        \/ \E name \in RaceNames, raw \in RaceRooms :
              check_in_customer(s, name, "555-0100", "1 Main St", raw)
        \/ view_all_customers(s)
        \/ \E raw \in RaceRooms : find_customer(s, raw)
        \/ \E raw \in RaceRooms : check_out_lookup(s, raw)
        \/ \E answer \in RaceAnswers : check_out_confirm(s, answer)
        \/ Exit(s)

SpecConcurrent == InitConcurrent /\ [][NextConcurrent]_vars

(***************************************************************************)
(* One operator session on a store and a link that can fail, run again     *)
(* after it ended.  The environment's steps: the link drops                *)
(* (ConnectionLost), the link is about to drop under the next COMMIT       *)
(* (ConnectionFailing), the operator's input ends or is interrupted at a   *)
(* prompt, where input() raises EOFError or KeyboardInterrupt, which no    *)
(* except clause of the program names (EndOfInput), and the program is     *)
(* started again (Restart).                                                *)
(***************************************************************************)
ConnectionLost(s) ==
    /\ pc[s] \in {"menu", "confirm"}
    /\ conn[s] \in {"open", "breaking"}
    /\ conn' = [conn EXCEPT ![s] = "broken"]
    /\ snap' = [snap EXCEPT ![s] = NoSnap]
    /\ UNCHANGED <<dbExists, tableExists, customers, autoInc, clock, pc,
                   pending, resp, vacated, lastId>>

ConnectionFailing(s) ==
    /\ pc[s] \in {"menu", "confirm"}
    /\ conn[s] = "open"
    /\ conn' = [conn EXCEPT ![s] = "breaking"]
    /\ UNCHANGED <<dbExists, tableExists, customers, autoInc, clock, pc,
                   snap, pending, resp, vacated, lastId>>

EndOfInput(s) ==
    /\ pc[s] \in {"menu", "confirm"}
    /\ pc' = [pc EXCEPT ![s] = "aborted"]
    /\ pending' = [pending EXCEPT ![s] = [room |-> NoRoom, name |-> ""]]
    /\ snap' = [snap EXCEPT ![s] = NoSnap]
    /\ Reported(s, Report("main", "Aborted", "EOFError", NoRoom, "", <<>>, <<>>,
                          NoInput))
    /\ UNCHANGED <<dbExists, tableExists, customers, autoInc, clock, conn,
                   vacated, lastId>>

Restart(s) ==
    /\ pc[s] \in {"done", "aborted"}
    /\ pc' = [pc EXCEPT ![s] = "start"]
    /\ conn' = [conn EXCEPT ![s] = "none"]
    /\ resp' = [resp EXCEPT ![s] = NoReport]
    /\ UNCHANGED <<dbExists, tableExists, customers, autoInc, clock, snap,
                   pending, vacated, lastId>>

FaultNames == {"Alice Tan"}
FaultContacts == {"555-0100", "555-0100-555-0101-555"}
FaultRooms == RoomInputs
FaultAnswers == {"y", "n"}

NextFaulty ==
    \E s \in Sessions :
        \/ \E fault \in SetupSteps \cup {NoFault} : setup_database(s, fault)
        \/ \E name \in FaultNames, contact \in FaultContacts, raw \in FaultRooms :
              check_in_customer(s, name, contact, "1 Main St", raw)
        \/ view_all_customers(s)
        \/ \E raw \in FaultRooms : find_customer(s, raw)
        \/ \E raw \in FaultRooms : check_out_lookup(s, raw)
        \/ \E answer \in FaultAnswers : check_out_confirm(s, answer)
        \/ InvalidChoice(s)
        \/ Exit(s)
        \/ ConnectionLost(s)
        \/ ConnectionFailing(s)
        \/ EndOfInput(s)
        \/ Restart(s)

SpecFaulty == Init /\ [][NextFaulty]_vars

(***************************************************************************)
(* Properties.                                                             *)
(***************************************************************************)
RowsOf(tbl, room_number) == {r \in tbl : r.room_number = room_number}

\* C1: in every reachable state, whatever check-ins, lists, finds and
\* check-outs the sessions have interleaved, the customers table holds at
\* most one record for any room_number.
C1_OneRecordPerRoom ==
    \A r \in customers : \A q \in customers :
        r.room_number = q.room_number => r = q

\* A second session has tried to check in to a room another one occupies.
C1_Witness ==
    \E s \in Sessions : \E t \in Sessions \ {s} :
        /\ resp[s].op = "check_in" /\ resp[s].outcome = "Success"
        /\ resp[t].op = "check_in" /\ resp[t].outcome = "ConflictFailure"
        /\ resp[t].room = resp[s].room
        /\ \E r \in customers : r.id = resp[s].rowid

\* What the typed room numbers denote, written out.
IntegerTyped ==
    { [raw |-> <<"1","0","1">>, val |-> 101],
      [raw |-> <<"2","2","0">>, val |-> 220],
      [raw |-> <<" ","1","0","1"," ">>, val |-> 101],
      [raw |-> <<"0">>, val |-> 0] }
NonIntegerTyped == { <<"a","b","c">> }

FitsColumns(name, contact) == Len(name) <= NameWidth /\ Len(contact) <= ContactWidth

C3_ValidationExactly ==
    [][\A s \in Sessions, name \in Names, contact \in Contacts,
          address \in Addresses, raw \in RoomInputs :
            check_in_customer(s, name, contact, address, raw)
            => LET malformed == \/ name = "" \/ contact = "" \/ address = ""
                                \/ raw \in NonIntegerTyped
               IN  /\ (resp'[s].outcome = "ValidationFailure") <=> malformed
                   /\ \A t \in IntegerTyped :
                        ( /\ t.raw = raw /\ ~malformed
                          /\ FitsColumns(name, contact)
                          /\ RowsOf(customers, t.val) = {} )
                        => /\ resp'[s].outcome = "Success"
                           /\ RowsOf(customers', t.val) # {}]_vars

\* C4: after a successful check_in(n, c, a, R), the find_by_room(R) that the
\* session issues next returns Success with one record whose name, contact,
\* address and room_number are n, c, a and R, whose id is the value the
\* store's AUTO_INCREMENT counter gave out last and whose timestamp is the
\* store's clock at the insert.
C4_RoundTrip ==
    \A s \in Sessions :
        ( /\ resp[s].op = "find"
          /\ resp[s].after # NoInput
          /\ resp[s].room = resp[s].after.room_number )
        => /\ resp[s].outcome = "Success"
           /\ Len(resp[s].rows) = 1
           /\ LET r == resp[s].rows[1]
              IN  /\ r.name = resp[s].after.name
                  /\ r.contact = resp[s].after.contact
                  /\ r.address = resp[s].after.address
                  /\ r.room_number = resp[s].after.room_number
                  /\ r.id = autoInc - 1
                  /\ r.check_in_date = clock

\* A find of the room follows at once the check-in that occupied it, while
\* another room is occupied too.
C4_Witness ==
    \E s \in Sessions :
        /\ resp[s].op = "find"
        /\ resp[s].after # NoInput
        /\ resp[s].room = resp[s].after.room_number
        /\ Cardinality(customers) = 2

\* C5: once a confirmed check_out(R) has reported Success, and until the next
\* check-in to R, find_by_room(R) returns NotFound and no record that
\* list_all() returns has room_number R.
C5_CheckOutComplete ==
    \A s \in Sessions :
        /\ (resp[s].op = "find" /\ resp[s].room \in vacated)
            => resp[s].outcome = "NotFound"
        /\ resp[s].op = "list"
            => \A i \in 1..Len(resp[s].rows) :
                    resp[s].rows[i].room_number \notin vacated

\* A room that was checked out is looked up while another room is occupied.
C5_Witness ==
    \E s \in Sessions :
        /\ resp[s].op = "find" /\ resp[s].room \in vacated
        /\ customers # {}

\* C6: a check_out(R) answered with anything but the affirmative answer
\* (y, in either case) yields Cancelled and changes nothing: the record of R
\* is still there with the name that was shown, and the table is the same.
C6_CancelledNoMutation ==
    [][\A s \in Sessions, answer \in Answers \ {"y", "Y"} :
            check_out_confirm(s, answer)
            => /\ resp'[s].outcome = "Cancelled"
               /\ customers' = customers
               /\ \E r \in customers' :
                    r.room_number = pending[s].room /\ r.name = pending[s].name]_vars

\* A check-out was cancelled and the room's record is in the table.
C6_Witness ==
    \E s \in Sessions :
        /\ resp[s].op = "check_out" /\ resp[s].outcome = "Cancelled"
        /\ \E r \in customers :
            r.room_number = resp[s].room /\ r.name = resp[s].name

\* C7: find_by_room and check_out given a room number that is no integer
\* yield ValidationFailure and send nothing to the store: no statement is
\* issued, no read view is opened, no prompt follows, the table is the same.
C7_ValidationBeforeStorage ==
    [][\A s \in Sessions, raw \in NonIntegerTyped :
            (find_customer(s, raw) \/ check_out_lookup(s, raw))
            => /\ resp'[s].outcome = "ValidationFailure"
               /\ resp'[s].stmts = <<>>
               /\ customers' = customers
               /\ snap' = snap
               /\ pc' = pc]_vars

\* A check-out was refused for its room number while the table holds a record.
C7_Witness ==
    \E s \in Sessions :
        /\ resp[s].op = "check_out" /\ resp[s].outcome = "ValidationFailure"
        /\ resp[s].stmts = <<>>
        /\ customers # {}

\* C8: find_by_room(R) and check_out(R) on a Vacant room yield NotFound;
\* check_out does so after its lookup alone, with no prompt and no DELETE,
\* and the table is the same.
C8_VacantNotFound ==
    [][\A s \in Sessions, t \in IntegerTyped :
            RowsOf(customers, t.val) = {}
            => /\ find_customer(s, t.raw) => resp'[s].outcome = "NotFound"
               /\ check_out_lookup(s, t.raw)
                    => /\ resp'[s].outcome = "NotFound"
                       /\ resp'[s].stmts = <<"SELECT">>
                       /\ pc'[s] = "menu"
                       /\ customers' = customers]_vars

\* A check-out found its room vacant while another room is occupied.
C8_Witness ==
    \E s \in Sessions :
        /\ resp[s].op = "check_out" /\ resp[s].outcome = "NotFound"
        /\ RowsOf(customers, resp[s].room) = {}
        /\ customers # {}

\* C9: list_all() is a Success that returns the records of the table, each
\* once, in strictly ascending room_number order, whatever the order of the
\* check-ins; on the empty table it is a Success with zero records.
C9_ListOrdered ==
    \A s \in Sessions :
        resp[s].op = "list"
        => LET rows == resp[s].rows
           IN  /\ resp[s].outcome = "Success"
               /\ Len(rows) = Cardinality(customers)
               /\ {rows[i] : i \in 1..Len(rows)} =
                    { [id |-> r.id, name |-> r.name, contact |-> r.contact,
                       room_number |-> r.room_number,
                       check_in_date |-> r.check_in_date] : r \in customers }
               /\ \A i \in 1..(Len(rows) - 1) :
                    rows[i].room_number < rows[i + 1].room_number

\* A list of two records, the one with the greater room number checked in first.
C9_Witness ==
    \E s \in Sessions :
        /\ resp[s].op = "list"
        /\ Len(resp[s].rows) = 2
        /\ resp[s].rows[1].id > resp[s].rows[2].id

\* C10: of two sessions checking in to the same room, the one that finds it
\* Vacant yields Success and its record becomes the room's only record; the
\* one that finds it Occupied yields ConflictFailure and leaves the table as
\* it is.  So of two attempts on one vacancy exactly one succeeds.
C10_OneWinner ==
    [][\A s \in Sessions, name \in RaceNames, t \in IntegerTyped :
            check_in_customer(s, name, "555-0100", "1 Main St", t.raw)
            => IF RowsOf(customers, t.val) = {}
               THEN /\ resp'[s].outcome = "Success"
                    /\ \E r \in customers' :
                        /\ RowsOf(customers', t.val) = {r}
                        /\ r.name = name
                        /\ r.id = resp'[s].rowid
                        /\ customers' = customers \cup {r}
               ELSE /\ resp'[s].outcome = "ConflictFailure"
                    /\ resp'[s].room = t.val
                    /\ customers' = customers]_vars

\* Both sessions have tried the room: one holds it with its record, the
\* other was refused.
C10_Witness ==
    \E s \in Sessions : \E t \in Sessions \ {s} :
        /\ resp[s].op = "check_in" /\ resp[s].outcome = "Success"
        /\ resp[t].op = "check_in" /\ resp[t].outcome = "ConflictFailure"
        /\ resp[t].room = resp[s].room
        /\ \E r \in customers :
            /\ RowsOf(customers, resp[s].room) = {r}
            /\ r.id = resp[s].rowid
            /\ r.name = resp[s].input.name

\* C11: a confirmed check_out(R) whose DELETE removes no row, the record
\* having vanished since the lookup, reports "could not process check-out",
\* never Success, and leaves the table as it is; one that reports Success has
\* removed the one record R had at its DELETE.  So of the confirmed check-outs
\* that sessions interleave on one occupancy of R, at most one reports Success.
C11_VanishedNotSuccess ==
    [][\A s \in Sessions, answer \in {"y", "Y"} :
            check_out_confirm(s, answer)
            => IF RowsOf(customers, pending[s].room) = {}
               THEN /\ resp'[s].outcome = "Failed"
                    /\ customers' = customers
               ELSE /\ resp'[s].outcome = "Success"
                    /\ \E r \in RowsOf(customers, pending[s].room) :
                        customers' = customers \ {r}
                    /\ RowsOf(customers', pending[s].room) = {}]_vars

\* Two sessions have confirmed a check-out of the room: one has removed the
\* record, the other found it gone.
C11_Witness ==
    \E s \in Sessions : \E t \in Sessions \ {s} :
        /\ resp[s].op = "check_out" /\ resp[s].outcome = "Success"
        /\ resp[t].op = "check_out" /\ resp[t].outcome = "Failed"
        /\ resp[t].room = resp[s].room
        /\ resp[t].stmts = <<"SELECT", "DELETE", "COMMIT">>
        /\ RowsOf(customers, resp[s].room) = {}

\* C12: whenever a confirmed check_out(R) removes a record and reports
\* Success, the occupant name its lookup resolved and its prompt showed is
\* the name of the record it removed, however the other sessions' check-outs
\* and check-ins of R are interleaved with it.
C12_RemovedIsResolved ==
    [][\A s \in Sessions, answer \in {"y", "Y"} :
            ( /\ check_out_confirm(s, answer)
              /\ resp'[s].outcome = "Success" )
            => \A r \in customers \ customers' : r.name = pending[s].name]_vars

\* C13: the connection setup_database handed to main is released on every
\* path by which the menu loop ends: once main is over, by the Exit choice
\* or by an error raised inside an operation or the loop, a connection that
\* was acquired has been closed (or the server had dropped it already).
C13_ReleasedOnEveryPath ==
    \A s \in Sessions :
        (pc[s] \in {"done", "aborted"} /\ conn[s] # "none")
        => conn[s] \in {"closed", "broken"}

\* C14: setup_database run again on a store it has provisioned, the server
\* and the link in order, does not fail: it returns an open connection and
\* main goes on to the menu, the database and its one customers table are
\* still there, and the table holds the records it held, the counter of
\* their ids included.
C14_ProvisionTwice ==
    [][\A s \in Sessions :
            (dbExists /\ tableExists /\ setup_database(s, NoFault))
            => /\ resp'[s].outcome = "Success"
               /\ conn'[s] = "open"
               /\ pc'[s] = "menu"
               /\ dbExists' /\ tableExists'
               /\ customers' = customers
               /\ autoInc' = autoInc]_vars

\* The program was started again on a table that holds a record, and
\* setup_database has returned.
C14_Witness ==
    \E s \in Sessions :
        /\ resp[s].op = "setup" /\ resp[s].outcome = "Success"
        /\ conn[s] = "open"
        /\ customers # {}

\* A step of session s in one of the four registry operations.
RegistryOperation(s) ==
    \/ \E name \in FaultNames, contact \in FaultContacts, raw \in FaultRooms :
            check_in_customer(s, name, contact, "1 Main St", raw)
    \/ view_all_customers(s)
    \/ \E raw \in FaultRooms : find_customer(s, raw) \/ check_out_lookup(s, raw)
    \/ \E answer \in FaultAnswers : check_out_confirm(s, answer)

\* C15: when a step of setup_database fails with a storage error other than
\* "database exists", setup_database reports the failure with its cause and
\* hands main no connection, and main ends without entering the menu; and no
\* check-in, list, find or check-out ever runs in a main that setup_database
\* did not hand a connection.
C15_FailureNoRegistry ==
    [][\A s \in Sessions :
            /\ \A fault \in SetupSteps :
                    setup_database(s, fault)
                    => /\ resp'[s].outcome = "Failure"
                       /\ resp'[s].why # ""
                       /\ conn'[s] = "none"
                       /\ pc'[s] = "done"
                       /\ customers' = customers
            /\ RegistryOperation(s)
                => conn[s] \in {"open", "breaking", "broken"}]_vars

\* The program was started on a table that holds a record, setup_database
\* failed, and main is over.
C15_Witness ==
    \E s \in Sessions :
        /\ resp[s].op = "setup" /\ resp[s].outcome = "Failure"
        /\ pc[s] = "done" /\ conn[s] = "none"
        /\ customers # {}

\* C16: no outcome of a registry operation ends the session.  After an
\* operation, whatever it reported (ValidationFailure, ConflictFailure,
\* NotFound, Cancelled, StorageFailure included), main is in its loop, at
\* the menu or at the operation's own prompt; the operation has not closed
\* the connection, and a connection that was in order still is; and of what
\* the operator can choose, Exit alone takes main out of the loop to its
\* end.  (Input that ends at a prompt is no choice and no outcome: it is the
\* error path of C13, on which main is aborted.)
C16_OutcomesKeepSession ==
    [][\A s \in Sessions :
            /\ RegistryOperation(s)
                => /\ pc'[s] \in {"menu", "confirm"}
                   /\ pc'[s] = "confirm" => resp'[s] = resp[s]
                   /\ conn'[s] \notin {"none", "closed"}
                   /\ conn[s] = "open" => conn'[s] = "open"
            /\ (pc[s] \in {"menu", "confirm"} /\ pc'[s] = "done") => Exit(s)]_vars

\* An operation has reported a storage failure, and the session is at the
\* menu with its connection open and the table as it was.
C16_Witness ==
    \E s \in Sessions :
        /\ resp[s].op = "check_in" /\ resp[s].outcome = "StorageFailure"
        /\ pc[s] = "menu" /\ conn[s] = "open"
        /\ customers # {}

\* C17: the id of every record a step creates is strictly greater than the
\* id of every record created before it, those still in the table and those
\* a check-out has removed since (lastId is the greatest of them all); so no
\* id is given twice.
C17_IdsIncrease ==
    [][/\ \A q \in customers : q.id <= lastId
       /\ \A r \in customers' \ customers :
            /\ r.id > lastId
            /\ \A q \in customers : r.id > q.id
            /\ lastId' = r.id
       /\ lastId' >= lastId]_vars

\* A record was created with id 3 in a table that holds no other record:
\* the records created before it have been removed.
C17_Witness ==
    \E s \in Sessions :
        /\ resp[s].op = "check_in" /\ resp[s].outcome = "Success"
        /\ resp[s].rowid = 3
        /\ customers = {r \in customers : r.id = 3}
        /\ customers # {}
        /\ vacated # {}

\* C18: list_all and find_by_room are read-only: whatever is typed and
\* whatever they report (Success, NotFound, ValidationFailure,
\* StorageFailure), the table holds after them the records it held before,
\* with all their fields, and its id counter is where it was.
C18_ReadsReadOnly ==
    [][\A s \in Sessions, raw \in RoomInputs :
            (view_all_customers(s) \/ find_customer(s, raw))
            => /\ customers' = customers
               /\ autoInc' = autoInc
               /\ tableExists' = tableExists]_vars

\* A find has returned the record of its room, which is in the table.
C18_Witness ==
    \E s \in Sessions :
        /\ resp[s].op = "find" /\ resp[s].outcome = "Success"
        /\ Len(resp[s].rows) = 1
        /\ resp[s].rows[1] \in customers

\* C19: mutations touch only the target room.  A successful check_in to R
\* adds exactly one record, whose room is R; a successful check_out of R
\* removes exactly one record, whose room is R; every other record is the
\* same after as before.  And no step of any operation changes a field of a
\* record: a record (known by its id) stays as it is or is removed.
C19_OnlyTargetRoom ==
    [][/\ \A r \in customers :
            r \in customers' \/ (\A q \in customers' : q.id # r.id)
       /\ \A s \in Sessions, t \in IntegerTyped, name \in Names,
             contact \in Contacts, address \in Addresses :
            ( /\ resp'[s].op = "check_in" /\ resp'[s].outcome = "Success"
              /\ check_in_customer(s, name, contact, address, t.raw) )
            => \E r \in customers' \ customers :
                    /\ r.room_number = t.val
                    /\ customers' = customers \cup {r}
       /\ \A s \in Sessions, answer \in Answers :
            ( /\ resp'[s].op = "check_out" /\ resp'[s].outcome = "Success"
              /\ check_out_confirm(s, answer) )
            => \E r \in customers :
                    /\ r.room_number = pending[s].room
                    /\ customers' = customers \ {r}]_vars

\* A room was checked out and the one record in the table is another room's.
C19_Witness ==
    \E s \in Sessions :
        /\ resp[s].op = "check_out" /\ resp[s].outcome = "Success"
        /\ Cardinality(customers) = 1
        /\ \A r \in customers : r.room_number # resp[s].room

\* C20: check_in and check_out report Success only after their change is
\* committed: a check-in that reports Success has its record in the table
\* and a check-out that reports Success has left its room without one; and
\* when the link is down, or drops under the COMMIT, so that the INSERT, the
\* DELETE or the COMMIT raises, the operation never reports Success: it
\* reports a failure, and a StorageFailure carries its cause.  (A check-in
\* that its validation stops, as that of room 0, sends nothing and is no
\* case of this.)
C20_SuccessAfterCommit ==
    [][\A s \in Sessions :
            /\ \A name \in FaultNames, contact \in FaultContacts,
                  t \in IntegerTyped :
                    check_in_customer(s, name, contact, "1 Main St", t.raw)
                    => /\ resp'[s].outcome = "Success"
                            => /\ conn[s] = "open"
                               /\ \E r \in customers' :
                                    /\ r.id = resp'[s].rowid
                                    /\ r.name = name /\ r.room_number = t.val
                       /\ (conn[s] # "open" /\ t.val # 0)
                            => resp'[s].outcome \in
                                    {"StorageFailure", "ConflictFailure"}
                       /\ resp'[s].outcome = "StorageFailure"
                            => resp'[s].why # ""
            /\ \A answer \in {"y", "Y"} :
                    check_out_confirm(s, answer)
                    => /\ resp'[s].outcome = "Success"
                            => /\ conn[s] = "open"
                               /\ RowsOf(customers, pending[s].room) # {}
                               /\ RowsOf(customers', pending[s].room) = {}
                       /\ conn[s] # "open"
                            => /\ resp'[s].outcome = "StorageFailure"
                               /\ resp'[s].why # ""]_vars

\* A confirmed check-out sent its DELETE, its COMMIT raised, it reported the
\* storage failure, and the room's record is still in the table.
C20_Witness ==
    \E s \in Sessions :
        /\ resp[s].op = "check_out" /\ resp[s].outcome = "StorageFailure"
        /\ resp[s].stmts = <<"SELECT", "DELETE", "COMMIT">>
        /\ \E r \in customers :
            r.room_number = resp[s].room /\ r.name = resp[s].name
====
